---- MODULE Spec2Model ----
(***************************************************************************)
(* tegrity: the sandboxed rootfs session (tegrity.qemu.QemuRunner), its    *)
(* mount plan (default_mount_kwargs) and the platform wrappers it calls    *)
(* (tegrity.utils.mount / umount, tegrity.firstboot._copy / _remove /      *)
(* _run); the first boot installer and runner (tegrity.firstboot), the     *)
(* service installer (tegrity.service) and the image maker (tegrity.image).*)
(*                                                                         *)
(* Strings that the code takes apart are sequences of pieces: a path is    *)
(* the sequence of its components (an absolute path starts with "/"), a    *)
(* userspec is the sequence of its characters, a command vector is a       *)
(* sequence of such words.  None and every other falsy value is <<>>.      *)
(*                                                                         *)
(* Five specifications: Spec (one session, from its construction to the    *)
(* end of its teardown), SpecFirstBoot (one call of                        *)
(* install_first_boot_scripts), SpecService (one call of                   *)
(* tegrity.service.install), SpecImage (one call of make_image) and        *)
(* SpecRunScripts (one call of run_scripts).                               *)
(***************************************************************************)
EXTENDS Integers, Sequences, FiniteSets, TLC

\* bounds of the model
MaxScripts == 2    \* scripts one session stages
MaxFaults == 2     \* platform calls (mount, umount, copy, remove) that fail in one run
MaxLen == 101      \* the longest list of first boot scripts a caller gives
MaxAsked == 3      \* questions put to the user in one run

None == <<>>

\* src/tegrity/qemu.py:46
ARCH == <<"aarch64">>

Rootfs == <<"/", "rootfs">>
HostQemu == <<"/", "usr", "bin", "qemu-aarch64-static">>

----------------------------------------------------------------------------
(* os.path *)
isabs(p) == Len(p) > 0 /\ p[1] = "/"

\* os.path.join(a, b): an absolute b discards a
join(a, b) == IF isabs(b) THEN b ELSE a \o b

basename(p) == IF Len(p) = 0 \/ p = <<"/">> THEN <<>> ELSE <<p[Len(p)]>>

dirname(p) == IF Len(p) = 0 THEN <<>> ELSE SubSeq(p, 1, Len(p) - 1)

IsPrefix(s, t) == Len(s) <= Len(t) /\ SubSeq(t, 1, Len(s)) = s

RECURSIVE reversed(_)
reversed(s) == IF s = <<>> THEN <<>> ELSE reversed(Tail(s)) \o <<Head(s)>>

----------------------------------------------------------------------------
(* the mount plan *)

\* one keyword dictionary for tegrity.utils.mount(); a key left out is None
Kwargs(source, target, type_, options) ==
    [source |-> source, target |-> target, type_ |-> type_, options |-> options]

\* what default_mount_kwargs finds on the rootfs:
\*   etc_resolv  "absent" | "file" | "symlink"   (<rootfs>/etc/resolv.conf)
\*   run_resolv  TRUE when <rootfs>/run/resolvconf/resolv.conf exists
RootfsLooks == [etc_resolv : {"absent", "file", "symlink"}, run_resolv : BOOLEAN]

\* a builder that takes the run path whenever it exists and else any
\* etc/resolv.conf, link or not (C15 must notice)
resolv_target_any(rootfs, looks) ==
    IF looks.run_resolv THEN join(rootfs, <<"run", "resolvconf", "resolv.conf">>)
    ELSE IF looks.etc_resolv # "absent" THEN join(rootfs, <<"etc", "resolv.conf">>)
    ELSE None

resolv_target(rootfs, looks) ==
    LET run_resolv == join(rootfs, <<"run", "resolvconf", "resolv.conf">>)
        etc_resolv == join(rootfs, <<"etc", "resolv.conf">>)
        islink_etc == looks.etc_resolv = "symlink"
        \* os.path.exists follows a link; the rootfs convention links
        \* etc/resolv.conf to ../run/resolvconf/resolv.conf
        exists_etc == \/ looks.etc_resolv = "file"
                      \/ (looks.etc_resolv = "symlink" /\ looks.run_resolv)
    IN  IF looks.run_resolv /\ islink_etc THEN run_resolv
        ELSE IF exists_etc /\ ~islink_etc THEN etc_resolv
        ELSE None

\* lines 76-80: the else branch logs a warning
resolv_warning(rootfs, looks) == resolv_target(rootfs, looks) = None

\* a plan that mounts devpts before /dev (C16 must notice)
default_mount_kwargs_pts_first(rootfs, looks) ==
    << Kwargs(<<"sysfs">>, join(rootfs, <<"sys">>), <<"sysfs">>,
              <<"ro", "nosuid", "nodev", "noexec", "relatime">>),
       Kwargs(<<"proc">>, join(rootfs, <<"proc">>), <<"proc">>,
              <<"ro", "nosuid", "nodev", "noexec", "relatime">>),
       Kwargs(<<"devpts">>, join(rootfs, <<"dev", "pts">>), <<"devpts">>,
              <<"rw", "nosuid", "noexec", "relatime">>),
       Kwargs(<<"/", "dev">>, join(rootfs, <<"dev">>), None, <<"bind", "ro">>),
       Kwargs(<<"tmpfs">>, join(rootfs, <<"tmp">>), <<"tmpfs">>, None) >>

default_mount_kwargs(rootfs, looks) ==
    LET list_of_kwargs ==
          << Kwargs(<<"sysfs">>, join(rootfs, <<"sys">>), <<"sysfs">>,
                    <<"ro", "nosuid", "nodev", "noexec", "relatime">>),
             Kwargs(<<"proc">>, join(rootfs, <<"proc">>), <<"proc">>,
                    <<"ro", "nosuid", "nodev", "noexec", "relatime">>),
             Kwargs(<<"/", "dev">>, join(rootfs, <<"dev">>), None,
                    <<"bind", "ro">>),
             Kwargs(<<"devpts">>, join(rootfs, <<"dev", "pts">>), <<"devpts">>,
                    <<"rw", "nosuid", "noexec", "relatime", "gid=5",
                      "mode=620", "ptmxmode=000">>),
             Kwargs(<<"tmpfs">>, join(rootfs, <<"tmp">>), <<"tmpfs">>, None) >>
        target == resolv_target(rootfs, looks)
    IN  IF target # None
        THEN Append(list_of_kwargs,
                    Kwargs(<<"/", "etc", "resolv.conf">>, target, None,
                           <<"bind", "ro">>))
        ELSE list_of_kwargs

\* plans a caller supplies itself
CallerPlan == << Kwargs(<<"/", "opt">>, join(Rootfs, <<"opt">>), None, <<"bind">>) >>
AdditionalMounts == << Kwargs(<<"/", "home">>, join(Rootfs, <<"home">>), None, <<"bind">>) >>

----------------------------------------------------------------------------
VARIABLES
    pc,            \* where the caller's program is
    qemu_file,     \* the file at <rootfs>/usr/bin/<translator>: "absent" | "orig" | "copy"
    qemu_file0,    \* what it was before the session
    mtab,          \* the platform's mount table: targets, in mount order
    files,         \* staged files that exist: <<path, layer>>, layer = mounts over the path when written
    self,          \* the QemuRunner object
    i,             \* loop position in __enter__ / __exit__
    exc,           \* the exception that is propagating (at "done": that reached the caller), or "none"
    orig,          \* the first exception raised in this run, or "none"
    td_from,       \* who called __exit__: "none" | "enter" | "with"
    calls,         \* every platform call made so far, in order
    ran,           \* the body's latest call on the session and what the runner was handed;
                   \* forgotten when __exit__ sets to work
    called,        \* TRUE once the body has made a call on the session
    faults,        \* platform calls that failed so far
    init_call,     \* the constructor call that has just returned or raised: what it
                   \* was given and whether it logged a warning; forgotten when
                   \* __enter__ sets to work
    fb,            \* a call of tegrity.firstboot.install_first_boot_scripts: its
                   \* arguments, its position, and the script folder it works on
    sv,            \* a call of tegrity.service.install and the rootfs it works on
    im,            \* a call of tegrity.image.make_image and what it found
    rs             \* a call of tegrity.firstboot.run_scripts and the files it sees

vars == <<pc, qemu_file, qemu_file0, mtab, files, self, i, exc, orig, td_from,
          calls, ran, called, faults, init_call, fb, sv, im, rs>>

NoSelf == [rootfs |-> None, arch |-> None, qemu |-> None, mount_kwargs |-> <<>>,
           userspec |-> None, tmp |-> None, _qemu_copied |-> None,
           _mounted |-> <<>>, _scripts |-> <<>>]

NoCall == [by |-> "none"]

Init ==
    /\ pc = "new"
    /\ qemu_file \in {"absent", "orig"}
    /\ qemu_file0 = qemu_file
    /\ mtab = <<>>
    /\ files = {}
    /\ self = NoSelf
    /\ i = 0
    /\ exc = "none"
    /\ orig = "none"
    /\ td_from = "none"
    /\ calls = <<>>
    /\ ran = NoCall
    /\ called = FALSE
    /\ faults = 0
    /\ init_call = NoCall
    /\ fb = NoCall
    /\ sv = NoCall
    /\ im = NoCall
    /\ rs = NoCall

----------------------------------------------------------------------------
(* QemuRunner.__init__ *)

\* userspecs a caller may give: characters of the string
Userspecs == { <<"u", ":", "g">>, <<"u", "g">>, <<"u", "-", "x", ":", "g">> }

InSeq(x, s) == \E k \in 1..Len(s) : s[k] = x

\* shutil.which(f'qemu-{arch}-static'): the executable found on PATH, or None
which(arch, host) == IF host = "ok" /\ arch = ARCH THEN HostQemu ELSE None

\* qemu.split('-')[1]
split_arch(qemu) == IF qemu = HostQemu THEN ARCH ELSE None

\* the outcome of the constructor: the exception it raises ("none": the object)
\* host: the translator on the host "ok" | "missing" | "noexec"
init_result(isdir, arch, qemu, host, mount_kwargs, additional_mounts, userspec, looks) ==
    LET self_arch == IF arch # None THEN arch ELSE split_arch(qemu)
        self_qemu == IF qemu # None THEN qemu ELSE which(self_arch, host)
        base == IF mount_kwargs # None THEN mount_kwargs
                ELSE default_mount_kwargs(Rootfs, looks)
        plan == IF additional_mounts # None THEN base \o additional_mounts ELSE base
        \* lines 161-176: the checks that come before the mount plan
        early ==
            IF ~isdir THEN "NotADirectoryError"
            ELSE IF ~(arch # None \/ qemu # None) THEN "ValueError"
            ELSE IF arch # None /\ qemu # None THEN "ValueError"
            ELSE IF self_qemu = None THEN "TypeError"
            ELSE IF host = "missing" THEN "FileNotFoundError"
            ELSE IF host = "noexec" THEN "PermissionError"
            ELSE "none"
        raised ==
            IF early # "none" THEN early
            ELSE IF userspec # None /\ (~InSeq(":", userspec) \/ InSeq("-", userspec))
                 THEN "ValueError"
            ELSE "none"
    IN  [exc |-> raised,
         \* default_mount_kwargs is reached after the translator checks and
         \* before the userspec check
         warned |-> /\ early = "none"
                    /\ mount_kwargs = None
                    /\ resolv_warning(Rootfs, looks),
         self |-> [rootfs |-> Rootfs,
                   arch |-> self_arch,
                   qemu |-> self_qemu,
                   mount_kwargs |-> plan,
                   userspec |-> userspec,
                   tmp |-> join(Rootfs, <<"tmp">>),
                   _qemu_copied |-> None,
                   _mounted |-> <<>>,
                   _scripts |-> <<>>]]

\* a constructor that binds the translator before it looks at the userspec
\* (C12 must notice)
init_calls_eager(raised) ==
    IF raised = "ValueError"
    THEN << [op |-> "mount", target |-> join(Rootfs, <<"usr", "bin">> \o basename(HostQemu)),
             ok |-> TRUE] >>
    ELSE <<>>

\* platform calls (mount, copy, remove) the constructor makes: none; lines
\* 158-193 only look (os.path.isdir, shutil.which, os.path.isfile, os.access)
init_calls(raised) == <<>>

\* who constructs the session, and the arch that stands when the caller names
\* none: QemuRunner(...) itself (arch: str = ARCH, line 138), main(...)
\* (arch: str = None, line 277, handed on) or the command line (--arch,
\* default=ARCH, lines 319-320, handed on by main)
Entries == {"QemuRunner", "main", "cli_main"}
arch_default(entry) == IF entry = "main" THEN None ELSE ARCH

Construct ==
    /\ pc = "new"
    /\ \E entry \in Entries, isdir \in BOOLEAN,
          arch_passed \in BOOLEAN, arch_arg \in {None, ARCH},
          qemu \in {None, HostQemu},
          host \in {"ok", "missing", "noexec"},
          mount_kwargs \in {None, CallerPlan},
          additional_mounts \in {None, AdditionalMounts},
          userspec \in Userspecs \cup {None},
          looks \in RootfsLooks :
        LET arch == IF arch_passed THEN arch_arg ELSE arch_default(entry)
            r == init_result(isdir, arch, qemu, host, mount_kwargs,
                             additional_mounts, userspec, looks)
        IN  /\ init_call' = [by |-> entry, isdir |-> isdir,
                             arch_passed |-> arch_passed, arch |-> arch,
                             qemu |-> qemu, host |-> host,
                             mount_kwargs |-> mount_kwargs,
                             additional_mounts |-> additional_mounts,
                             userspec |-> userspec, looks |-> looks,
                             warned |-> r.warned]
            /\ calls' = calls \o init_calls(r.exc)
            /\ IF r.exc = "none"
               THEN /\ self' = r.self
                    /\ pc' = "unopened"
                    /\ UNCHANGED <<exc, orig>>
               ELSE /\ exc' = r.exc
                    /\ orig' = r.exc
                    /\ pc' = "done"
                    /\ UNCHANGED self
    /\ UNCHANGED <<qemu_file, qemu_file0, mtab, files, i, td_from, ran, called, faults>>
    /\ UNCHANGED <<fb, sv, im, rs>>

----------------------------------------------------------------------------
(* the platform, as tegrity.utils drives it *)

\* a platform call may fail while the fault budget lasts
Outcome == IF faults < MaxFaults THEN BOOLEAN ELSE {TRUE}
Fault(ok) == IF ok THEN faults ELSE faults + 1

\* sorted(options): the options that occur, in alphabetical order
OptionOrder == <<"bind", "gid=5", "mode=620", "nodev", "noexec", "nosuid",
                 "ptmxmode=000", "relatime", "ro", "rw">>
sorted(options) == SelectSeq(OptionOrder, LAMBDA o : InSeq(o, options))

\* tegrity.utils.mount: the command vector handed to tegrity.utils.run
mount(source, target, type_, options) ==
    <<(<<"mount">>)>>
      \o (IF type_ # None THEN << <<"-t">>, type_ >> ELSE <<>>)
      \o (IF options # None THEN << <<"-o">>, sorted(options) >> ELSE <<>>)
      \o <<source, target>>

\* tegrity.utils.umount
umount(target) == << <<"umount">>, target >>

\* _run (tegrity.utils.run: utils imports it from tegrity.firstboot): what
\* subprocess.run is given
_run(command, sudo) == IF sudo THEN << <<"pkexec">> >> \o command ELSE command

\* the mount table after a successful umount of target: its topmost mount goes
RECURSIVE DropLast(_, _)
DropLast(s, t) ==
    IF s = <<>> THEN <<>>
    ELSE IF s[Len(s)] = t THEN SubSeq(s, 1, Len(s) - 1)
    ELSE Append(DropLast(SubSeq(s, 1, Len(s) - 1), t), s[Len(s)])

\* how many mounts lie over a path
Layer(tab, path) == Cardinality({k \in 1..Len(tab) : IsPrefix(tab[k], path)})

----------------------------------------------------------------------------
(* QemuRunner.__enter__ *)

qemu_target == join(self.rootfs, <<"usr", "bin">> \o basename(self.qemu))

\* a session that takes the place for empty whatever it holds (C4 must notice)
isfile_never(state) == FALSE

\* os.path.isfile(target) on the translator's place in the rootfs
isfile(state) == state # "absent"

\* an opening that records the target whatever mount gave back (C21 must notice)
after_mount_unchecked(ok) == "append"

\* lines 203-206 and 215-216: .check_returncode() on what mount gave back comes
\* before self._mounted.append(target)
after_mount(ok) == IF ok THEN "append" ELSE "raise"

\* the except clause of __enter__: log, then self.__exit__(None, None, None)
EnterFailed(e) ==
    /\ exc' = e
    /\ orig' = e
    /\ td_from' = "enter"
    /\ pc' = "exit_qemu"

\* lines 199-210: bind-mount the translator over a file of the rootfs, else copy it
EnterQemu ==
    /\ pc = "unopened"
    /\ \E ok \in Outcome :
        /\ faults' = Fault(ok)
        /\ IF isfile(qemu_file)
           THEN /\ calls' = Append(calls,
                        [op |-> "mount",
                         argv |-> _run(mount(self.qemu, qemu_target, None, <<"bind", "ro">>), FALSE),
                         target |-> qemu_target, ok |-> ok])
                /\ UNCHANGED qemu_file
                /\ mtab' = IF ok THEN Append(mtab, qemu_target) ELSE mtab
                /\ IF after_mount(ok) = "append"
                   THEN /\ self' = [self EXCEPT !._mounted = Append(@, qemu_target)]
                        /\ pc' = "enter_mounts"
                        /\ UNCHANGED <<exc, orig, td_from>>
                   ELSE /\ EnterFailed("CalledProcessError")
                        /\ UNCHANGED self
           ELSE /\ calls' = Append(calls,
                        [op |-> "copy", src |-> self.qemu, target |-> qemu_target, ok |-> ok])
                /\ UNCHANGED mtab
                /\ IF ok
                   THEN /\ qemu_file' = "copy"
                        /\ self' = [self EXCEPT !._qemu_copied = qemu_target]
                        /\ pc' = "enter_mounts"
                        /\ UNCHANGED <<exc, orig, td_from>>
                   ELSE /\ EnterFailed("OSError.copy")
                        /\ UNCHANGED <<qemu_file, self>>
    /\ i' = 1
    /\ init_call' = NoCall
    /\ UNCHANGED <<qemu_file0, files, ran, called, fb, sv, im, rs>>

\* lines 213-216: one turn of the loop over self.mount_kwargs
EnterMount ==
    /\ pc = "enter_mounts"
    /\ i <= Len(self.mount_kwargs)
    /\ LET kwargs == self.mount_kwargs[i]
           target == kwargs.target
       IN  \E ok \in Outcome :
            /\ faults' = Fault(ok)
            /\ calls' = Append(calls,
                    [op |-> "mount",
                     argv |-> _run(mount(kwargs.source, kwargs.target, kwargs.type_, kwargs.options), FALSE),
                     target |-> target, ok |-> ok])
            /\ mtab' = IF ok THEN Append(mtab, target) ELSE mtab
            /\ IF after_mount(ok) = "append"
               THEN /\ self' = [self EXCEPT !._mounted = Append(@, target)]
                    /\ i' = i + 1
                    /\ pc' = "enter_mounts"
                    /\ UNCHANGED <<exc, orig, td_from>>
               ELSE /\ EnterFailed("CalledProcessError")
                    /\ i' = 1
                    /\ UNCHANGED self
    /\ UNCHANGED <<qemu_file, qemu_file0, files, ran, called>>
    /\ UNCHANGED <<init_call, fb, sv, im, rs>>

\* line 224: return self; the with statement runs the body
EnterReturn ==
    /\ pc = "enter_mounts"
    /\ i > Len(self.mount_kwargs)
    /\ pc' = "active"
    /\ UNCHANGED <<qemu_file, qemu_file0, mtab, files, self, i, exc, orig, td_from,
                   calls, ran, called, faults>>
    /\ UNCHANGED <<init_call, fb, sv, im, rs>>

----------------------------------------------------------------------------
(* the body of the with statement: calls on the active session *)

\* what a caller passes
Commands == { << <<"apt-get">>, <<"update">> >> }
Scripts == { <<"s.sh">>, <<"t.sh">>, <<"d", "s.sh">>, <<"/", "h", "s.sh">> }
CallUserspecs == { None, <<"r", ":", "r">>, <<"r">> }
\* what becomes of the child: it exits with a status, or subprocess.run raises
\* an exception of its own (the executable is not found, ...)
Results == { [returncode |-> 0], [returncode |-> 1], [returncode |-> 2],
            [raised |-> "OSError.run"] }
Raised(result) == "raised" \in DOMAIN result
\* no child: the call did not get as far as the runner
NoChild == [spawned |-> FALSE]

\* a runner that raises on every non-zero exit (C14 must notice)
subprocess_run_checking(child, check) ==
    IF Raised(child) THEN child
    ELSE IF child.returncode # 0 THEN [raised |-> "CalledProcessError"]
    ELSE [returncode |-> child.returncode]

\* firstboot.py line 292: return subprocess.run(command, *args, **kwargs); the
\* CompletedProcess carries the child's exit status, and only check=True among
\* the keyword arguments turns a non-zero status into CalledProcessError
subprocess_run(child, check) ==
    IF Raised(child) THEN child
    ELSE IF check /\ child.returncode # 0 THEN [raised |-> "CalledProcessError"]
    ELSE [returncode |-> child.returncode]

\* a prefix that keeps the session's default next to the call's own (C25 must notice)
_base_command_both(userspec) ==
    LET own == IF userspec # None THEN << <<"--userspec=">> \o userspec >> ELSE <<>>
        default == IF self.userspec # None THEN << <<"--userspec=">> \o self.userspec >> ELSE <<>>
    IN  << <<"chroot">> >> \o own \o default \o <<self.rootfs>>

\* lines 243-250
_base_command(userspec) ==
    LET command == << <<"chroot">> >>
        spec == IF userspec # None THEN << <<"--userspec=">> \o userspec >>
                ELSE IF self.userspec # None THEN << <<"--userspec=">> \o self.userspec >>
                ELSE <<>>
    IN  command \o spec \o <<self.rootfs>>

\* lines 257-261: the vector run_cmd hands to tegrity.utils.run
run_cmd(command, userspec) ==
    LET cmd == _base_command(userspec) \o command
    IN  _run(command, FALSE)

\* an exception leaves the body: the with statement calls __exit__(type, value, tb)
BodyRaises(e) ==
    /\ exc' = e
    /\ orig' = e
    /\ td_from' = "with"
    /\ pc' = "exit_qemu"
    /\ i' = 1

\* a call of the body: who made it, with what, the vector tegrity.utils.run
\* was handed (<<>>: it was not reached), whether check=True went with it,
\* what became of the child and what the runner gave back
RunCall(by, command, userspec, argv, check, child, result) ==
    [by |-> by, command |-> command, userspec |-> userspec,
     argv |-> argv, check |-> check, child |-> child, result |-> result]

RunCmd ==
    /\ pc = "active"
    /\ \E command \in Commands, userspec \in CallUserspecs, child \in Results,
          check \in BOOLEAN :
        LET result == subprocess_run(child, check)
        IN  /\ ran' = RunCall("run_cmd", command, userspec,
                              run_cmd(command, userspec), check, child, result)
            /\ IF Raised(result)
               THEN BodyRaises(result.raised)
               ELSE UNCHANGED <<pc, exc, orig, td_from, i>>
    /\ called' = TRUE
    /\ UNCHANGED <<qemu_file, qemu_file0, mtab, files, self, calls, faults>>
    /\ UNCHANGED <<init_call, fb, sv, im, rs>>

\* shutil.copy(script, dest) into the staging directory: the exception it raises
copy_script(script, dest, ok) ==
    IF script = dest THEN "SameFileError"
    ELSE IF dirname(dest) # self.tmp THEN "FileNotFoundError"
    ELSE IF ~ok THEN "OSError.copy"
    ELSE "none"

\* a staging that also records its destination as a mount (C23 must notice)
staged_and_mounted(session, dest) ==
    [session EXCEPT !._scripts = Append(@, dest), !._mounted = Append(@, dest)]

\* line 268: self._scripts.append(dest)
staged(session, dest) == [session EXCEPT !._scripts = Append(@, dest)]

\* lines 263-270
RunScript ==
    /\ pc = "active"
    /\ Len(self._scripts) < MaxScripts
    /\ \E script \in Scripts, userspec \in CallUserspecs, child \in Results,
          ok \in Outcome :
        LET dest == join(self.tmp, script)
            result == subprocess_run(child, FALSE)
            copied == copy_script(script, dest, ok)
            dest_in_chroot == join(<<"/", "tmp">>, script)
            command == <<dest_in_chroot>>
        IN  /\ faults' = Fault(ok)
            /\ IF copied # "none"
               THEN /\ ran' = RunCall("run_script", <<script>>, userspec, <<>>,
                                      FALSE, NoChild, [raised |-> copied])
                    /\ BodyRaises(copied)
                    /\ UNCHANGED <<files, self>>
               ELSE /\ files' = files \cup {<<dest, Layer(mtab, dest)>>}
                    /\ self' = staged(self, dest)
                    /\ ran' = RunCall("run_script", <<script>>, userspec,
                                      run_cmd(command, userspec), FALSE, child, result)
                    /\ IF Raised(result)
                       THEN BodyRaises(result.raised)
                       ELSE UNCHANGED <<pc, exc, orig, td_from, i>>
    /\ called' = TRUE
    /\ UNCHANGED <<qemu_file, qemu_file0, mtab, calls>>
    /\ UNCHANGED <<init_call, fb, sv, im, rs>>

\* lines 252-255
EnterChroot ==
    /\ pc = "active"
    /\ \E userspec \in CallUserspecs, child \in Results :
        LET result == subprocess_run(child, FALSE)
        IN  /\ ran' = RunCall("enter_chroot", <<>>, userspec,
                              _run(_base_command(userspec), FALSE), FALSE, child, result)
            \* .check_returncode() on what the runner gave back
            /\ IF Raised(result) THEN BodyRaises(result.raised)
               ELSE IF result.returncode # 0 THEN BodyRaises("CalledProcessError")
               ELSE UNCHANGED <<pc, exc, orig, td_from, i>>
    /\ called' = TRUE
    /\ UNCHANGED <<qemu_file, qemu_file0, mtab, files, self, calls, faults>>
    /\ UNCHANGED <<init_call, fb, sv, im, rs>>

\* the body raises an exception of its own
BodyError ==
    /\ pc = "active"
    /\ BodyRaises("BodyError")
    /\ UNCHANGED <<qemu_file, qemu_file0, mtab, files, self, calls, ran, called, faults>>
    /\ UNCHANGED <<init_call, fb, sv, im, rs>>

\* the body ends: the with statement calls __exit__(None, None, None)
BodyEnds ==
    /\ pc = "active"
    /\ td_from' = "with"
    /\ pc' = "exit_qemu"
    /\ i' = 1
    /\ UNCHANGED <<qemu_file, qemu_file0, mtab, files, self, exc, orig, calls,
                   ran, called, faults>>
    /\ UNCHANGED <<init_call, fb, sv, im, rs>>

----------------------------------------------------------------------------
(* QemuRunner.__exit__ *)

\* _remove(path): "removed", "logged" (the error is caught and logged) or
\* "raises"; kind: what is at the path, "file" | "missing" | "dir"
_remove(kind, ok) ==
    IF kind = "dir" THEN (IF ok THEN "removed" ELSE "logged")
    ELSE IF kind = "file" /\ ok THEN "removed"
    ELSE "raises"

\* line 233: tegrity.utils.remove(self._qemu_copied) stands outside any try
after_qemu_remove(removed) == IF removed = "raises" THEN "raise" ELSE "continue"

\* a teardown that checks the return code of umount (C8 must notice)
after_umount_checked(ok) == IF ok THEN "continue" ELSE "raise"

\* line 236: the CompletedProcess of umount is dropped, never checked
after_umount(ok) == "continue"

\* lines 238-241: try / except Exception around the removal of a script
after_script_remove(removed) == "continue"

\* a teardown that deletes the staged scripts before it unmounts (C22 must notice)
exit_next_scripts_first(step) ==
    IF step = "exit_qemu" THEN "exit_scripts"
    ELSE IF step = "exit_scripts" THEN "exit_umounts"
    ELSE "done"

\* lines 232-241: the statements of __exit__ in their order: the translator's
\* copy, the loop over reversed(self._mounted), the loop over self._scripts
exit_next(step) ==
    IF step = "exit_qemu" THEN "exit_umounts"
    ELSE IF step = "exit_umounts" THEN "exit_scripts"
    ELSE "done"

\* an exception leaves __exit__: it replaces the one that was propagating
ExitRaises(e) ==
    /\ exc' = e
    /\ orig' = IF orig = "none" THEN e ELSE orig
    /\ pc' = "done"

\* lines 232-233
ExitQemu ==
    /\ pc = "exit_qemu"
    /\ IF self._qemu_copied # None
       THEN \E ok \in Outcome :
              LET removed == _remove(IF qemu_file = "absent" THEN "missing" ELSE "file", ok)
              IN  /\ faults' = Fault(ok)
                  /\ calls' = Append(calls, [op |-> "remove", target |-> self._qemu_copied,
                                             ok |-> removed = "removed"])
                  /\ qemu_file' = IF removed = "removed" THEN "absent" ELSE qemu_file
                  /\ IF after_qemu_remove(removed) = "raise"
                     THEN ExitRaises("OSError.remove")
                     ELSE /\ pc' = exit_next("exit_qemu")
                          /\ UNCHANGED <<exc, orig>>
       ELSE /\ pc' = exit_next("exit_qemu")
            /\ UNCHANGED <<faults, calls, qemu_file, exc, orig>>
    /\ i' = 1
    /\ ran' = NoCall
    /\ UNCHANGED <<qemu_file0, mtab, files, self, td_from, called>>
    /\ UNCHANGED <<init_call, fb, sv, im, rs>>

\* lines 235-236: one turn of the loop over reversed(self._mounted)
ExitUmount ==
    /\ pc = "exit_umounts"
    /\ i <= Len(self._mounted)
    /\ LET target == reversed(self._mounted)[i]
       IN  \E ok \in Outcome :
            /\ faults' = Fault(ok)
            /\ calls' = Append(calls, [op |-> "umount", argv |-> _run(umount(target), FALSE),
                                       target |-> target, ok |-> ok])
            /\ IF ok
               THEN /\ mtab' = DropLast(mtab, target)
                    \* what was written onto the mount goes with it
                    /\ files' = {f \in files :
                                   ~(IsPrefix(target, f[1]) /\ f[2] = Layer(mtab, f[1]))}
               ELSE UNCHANGED <<mtab, files>>
            /\ IF after_umount(ok) = "raise"
               THEN /\ ExitRaises("CalledProcessError.umount")
                    /\ i' = 1
               ELSE /\ i' = i + 1
                    /\ UNCHANGED <<pc, exc, orig>>
    /\ UNCHANGED <<qemu_file, qemu_file0, self, td_from, ran, called>>
    /\ UNCHANGED <<init_call, fb, sv, im, rs>>

\* line 237: the loop over reversed(self._mounted) is over
ExitUmountsDone ==
    /\ pc = "exit_umounts"
    /\ i > Len(self._mounted)
    /\ pc' = exit_next("exit_umounts")
    /\ i' = 1
    /\ UNCHANGED <<qemu_file, qemu_file0, mtab, files, self, exc, orig, td_from,
                   calls, ran, called, faults>>
    /\ UNCHANGED <<init_call, fb, sv, im, rs>>

\* lines 237-241: one turn of the loop over self._scripts
ExitScript ==
    /\ pc = "exit_scripts"
    /\ i <= Len(self._scripts)
    /\ LET script == self._scripts[i]
           there == <<script, Layer(mtab, script)>> \in files
       IN  \E ok \in (IF there THEN Outcome ELSE {TRUE}) :
            LET removed == _remove(IF there THEN "file" ELSE "missing", ok)
            IN  /\ faults' = Fault(ok)
                /\ calls' = Append(calls, [op |-> "remove", target |-> script,
                                           ok |-> removed = "removed"])
                /\ files' = IF removed = "removed"
                            THEN files \ {<<script, Layer(mtab, script)>>}
                            ELSE files
                /\ IF after_script_remove(removed) = "raise"
                   THEN /\ ExitRaises("OSError.remove")
                        /\ i' = 1
                   ELSE /\ i' = i + 1
                        /\ UNCHANGED <<pc, exc, orig>>
    /\ UNCHANGED <<qemu_file, qemu_file0, mtab, self, td_from, ran, called>>
    /\ UNCHANGED <<init_call, fb, sv, im, rs>>

\* __exit__ returns None: __enter__ re-raises (line 223), the with statement
\* lets the body's exception go on
ExitReturn ==
    /\ pc = "exit_scripts"
    /\ i > Len(self._scripts)
    /\ pc' = exit_next("exit_scripts")
    /\ UNCHANGED <<qemu_file, qemu_file0, mtab, files, self, i, exc, orig, td_from,
                   calls, ran, called, faults>>
    /\ UNCHANGED <<init_call, fb, sv, im, rs>>

Next ==
    \/ Construct
    \/ EnterQemu
    \/ EnterMount
    \/ EnterReturn
    \/ RunCmd
    \/ RunScript
    \/ EnterChroot
    \/ BodyError
    \/ BodyEnds
    \/ ExitQemu
    \/ ExitUmount
    \/ ExitUmountsDone
    \/ ExitScript
    \/ ExitReturn

Spec == Init /\ [][Next]_vars

----------------------------------------------------------------------------
(* what the claims speak of *)

\* the targets of the calls of one kind, in the order they were made
Targets(op) ==
    LET of_op == SelectSeq(calls, LAMBDA c : c.op = op)
    IN  [n \in 1..Len(of_op) |-> of_op[n].target]

IsScriptRemove(c) == c.op = "remove" /\ c.target # self._qemu_copied
ScriptRemoves ==
    LET of_op == SelectSeq(calls, IsScriptRemove)
    IN  [n \in 1..Len(of_op) |-> of_op[n].target]

IsQemuRemove(c) == c.op = "remove" /\ c.target = self._qemu_copied

\* the session was constructed and __exit__ has come to its end
Closed == pc = "done" /\ td_from # "none"

\* exceptions that only __exit__ raises
TeardownErrors == {"OSError.remove", "CalledProcessError.umount"}

\* the whole of the teardown was carried out
FullTeardown ==
    /\ self._qemu_copied # None => \E n \in 1..Len(calls) : IsQemuRemove(calls[n])
    /\ Targets("umount") = reversed(self._mounted)
    /\ ScriptRemoves = self._scripts

----------------------------------------------------------------------------
\* C1: when a session has been closed, the umount calls teardown issued are
\* exactly the targets recorded in self._mounted, in reverse order.
C1_UmountsReverseRecorded ==
    Closed => Targets("umount") = reversed(self._mounted)

\* C2: when the mount of a descriptor fails during __enter__, teardown issues
\* umount for every target mounted before it (the translator's bind mount
\* included), the failed target is neither recorded nor unmounted, and no
\* mount is attempted after the failure.
C2_FailedMountUnwinds ==
    Closed =>
      \A n \in 2..Len(calls) :
        (calls[n].op = "mount" /\ ~calls[n].ok) =>
          /\ \A m \in 1..(n - 1) :
               (calls[m].op = "mount" /\ calls[m].ok) =>
                 \E u \in (n + 1)..Len(calls) :
                    calls[u].op = "umount" /\ calls[u].target = calls[m].target
          /\ Len(self._mounted) = Cardinality({m \in 1..(n - 1) : calls[m].op = "mount"})
          /\ Len(Targets("umount")) = Len(self._mounted)
          /\ \A m \in (n + 1)..Len(calls) : calls[m].op # "mount"

\* C3: a session opened and closed at once, the body making no call and
\* raising nothing, with every mount and umount command succeeding, leaves
\* the mount table as it was before the session (empty).
C3_OpenCloseRestoresMounts ==
    ( /\ Closed
      /\ td_from = "with"
      /\ ~called
      /\ orig \in TeardownErrors \cup {"none"}
      /\ \A n \in 1..Len(calls) : calls[n].op \in {"mount", "umount"} => calls[n].ok )
    => mtab = <<>>

C5_StagedScriptsGone ==
    Closed =>
      \A k \in 1..Len(self._scripts) :
        (\E f \in files : f[1] = self._scripts[k]) =>
          \E n \in 1..Len(calls) :
             IsScriptRemove(calls[n]) /\ calls[n].target = self._scripts[k] /\ ~calls[n].ok

\* C6: the vector run_cmd hands to the command runner is the chroot prefix
\* followed by the caller's argv.
C6_RunCmdIsChrooted ==
    ran.by = "run_cmd" => ran.argv = _base_command(ran.userspec) \o ran.command

\* C7: when the deletion of the copied translator fails during teardown, the
\* failure does not leave teardown, every recorded mount is still unmounted
\* and the deletion of every staged script is still attempted.
C7_FailedQemuRemoveGoesOn ==
    ( /\ Closed
      /\ \E n \in 1..Len(calls) : IsQemuRemove(calls[n]) /\ ~calls[n].ok )
    => /\ exc \notin TeardownErrors
       /\ Targets("umount") = reversed(self._mounted)
       /\ ScriptRemoves = self._scripts

\* C8: when an umount fails during teardown, or the deletion of a staged
\* script does, nothing is raised by teardown, and umount is still issued for
\* every recorded target and the deletion still attempted for every staged
\* script.
C8_FailedUmountGoesOn ==
    ( /\ Closed
      /\ \E n \in 1..Len(calls) :
           ~calls[n].ok /\ (calls[n].op = "umount" \/ IsScriptRemove(calls[n])) )
    => /\ exc \notin TeardownErrors
       /\ Targets("umount") = reversed(self._mounted)
       /\ ScriptRemoves = self._scripts

\* C8 happens: an umount failed with umounts still to come, and the deletion
\* of a script failed with another script still to delete
C8_Witness ==
    /\ Closed
    /\ \E n \in 1..Len(calls) : \E m \in (n + 1)..Len(calls) :
         calls[n].op = "umount" /\ ~calls[n].ok /\ calls[m].op = "umount"
    /\ \E n \in 1..Len(calls) : \E m \in (n + 1)..Len(calls) :
         IsScriptRemove(calls[n]) /\ ~calls[n].ok /\ IsScriptRemove(calls[m])

\* C9: when a step of __enter__ fails, teardown of all that was acquired
\* runs, the caller gets the error of that step and no other, and the body
\* never runs.
C9_OpenFailureReraised ==
    /\ td_from = "enter" => ~called /\ ran = NoCall /\ pc \in {"exit_qemu", "exit_umounts", "exit_scripts", "done"}
    /\ (Closed /\ td_from = "enter") =>
         /\ orig # "none"
         /\ exc = orig
         /\ FullTeardown

\* C10: an exception of the body sets off the whole teardown of a normal
\* exit and then reaches the caller unchanged.
C10_BodyErrorReraised ==
    (Closed /\ td_from = "with" /\ orig \notin TeardownErrors \cup {"none"}) =>
       /\ exc = orig
       /\ FullTeardown

----------------------------------------------------------------------------
(* the constructor and the mount plan *)

\* user[:group] as chroot takes it, by the test of lines 186-189
WellFormed(userspec) == InSeq(":", userspec) /\ ~InSeq("-", userspec)

\* the constructor call in init_call meets every precondition other than the
\* one on arch and qemu
RestIsFine ==
    /\ init_call.isdir
    /\ init_call.host = "ok"
    /\ init_call.userspec # None => WellFormed(init_call.userspec)

OneOfArchAndQemu == (init_call.arch # None) # (init_call.qemu # None)

\* C11: a session is constructed when exactly one of arch and qemu is given
\* and refused with ValueError when both or neither are; a caller who gives
\* only qemu and leaves arch at its default gets a session.
C11_ExactlyOneOfArchAndQemu ==
    init_call # NoCall /\ RestIsFine =>
        /\ OneOfArchAndQemu => pc = "unopened"
        /\ ~OneOfArchAndQemu => pc = "done" /\ exc = "ValueError"
        /\ ~init_call.arch_passed /\ init_call.qemu # None => pc = "unopened"

\* C12: a constructor call that fails a precondition (rootfs no directory,
\* translator missing or not executable, both or neither of arch and qemu,
\* malformed userspec) raises, and has copied nothing and mounted nothing.
C12_InitRaisesBeforeMutation ==
    init_call # NoCall =>
        /\ ~(RestIsFine /\ OneOfArchAndQemu) => pc = "done" /\ exc # "none"
        /\ pc = "done" =>
            /\ calls = <<>>
            /\ mtab = <<>>
            /\ files = {}
            /\ qemu_file = qemu_file0
            /\ self = NoSelf

\* C12 happens: the last check of the constructor, the one on the userspec, fails
C12_Witness ==
    /\ init_call # NoCall
    /\ pc = "done"
    /\ exc = "ValueError"
    /\ init_call.isdir /\ init_call.host = "ok" /\ OneOfArchAndQemu
    /\ ~WellFormed(init_call.userspec)

\* C13: a malformed userspec given to run_cmd, run_script or enter_chroot is
\* refused with ValueError before any command is executed.
C13_CallUserspecValidated ==
    ran # NoCall /\ ran.userspec # None /\ ~WellFormed(ran.userspec) =>
        /\ ran.argv = <<>>
        /\ exc = "ValueError"

\* C14: the runner gives back a result for every child that exited, with the
\* child's exit status in it, and a non-zero status is raised only where the
\* caller asks for the check (check=True, or check_returncode on the result).
C14_RunnerReturnsExitStatus ==
    ran # NoCall /\ ran.argv # <<>> /\ ~Raised(ran.child) =>
        /\ ~ran.check => ran.result = [returncode |-> ran.child.returncode]
        /\ Raised(ran.result) => ran.check /\ ran.child.returncode # 0
        /\ exc = "CalledProcessError" =>
              /\ ran.child.returncode # 0
              /\ ran.check \/ ran.by = "enter_chroot"

\* C14 happens: run_cmd came back from a child that exited with 2
C14_Witness ==
    /\ pc = "active"
    /\ ran # NoCall
    /\ ran.by = "run_cmd"
    /\ ~ran.check
    /\ ran.child = [returncode |-> 2]
    /\ exc = "none"

\* the constructor built the default plan and nothing was added to it
DefaultPlanBuilt ==
    /\ init_call # NoCall
    /\ pc = "unopened"
    /\ init_call.mount_kwargs = None
    /\ init_call.additional_mounts = None

ResolverSource == <<"/", "etc", "resolv.conf">>
Resolvers(plan) == {k \in 1..Len(plan) : plan[k].source = ResolverSource}

\* C15: etc/resolv.conf a link and the run path there: one resolver descriptor
\* onto <rootfs>/run/resolvconf/resolv.conf; etc/resolv.conf a plain file: one
\* onto <rootfs>/etc/resolv.conf; anything else: none, a warning, and no error.
C15_ResolverDescriptor ==
    init_call # NoCall /\ RestIsFine /\ OneOfArchAndQemu /\ init_call.mount_kwargs = None
    /\ init_call.additional_mounts = None =>
        /\ pc = "unopened"
        /\ LET looks == init_call.looks
               plan == self.mount_kwargs
               found(target) == /\ Resolvers(plan) = {Len(plan)}
                                /\ plan[Len(plan)].target = target
                                /\ ~init_call.warned
           IN  IF looks.etc_resolv = "symlink" /\ looks.run_resolv
               THEN found(Rootfs \o <<"run", "resolvconf", "resolv.conf">>)
               ELSE IF looks.etc_resolv = "file"
               THEN found(Rootfs \o <<"etc", "resolv.conf">>)
               ELSE Resolvers(plan) = {} /\ init_call.warned

\* C15 happens: a rootfs whose etc/resolv.conf is a dangling link
C15_Witness ==
    /\ DefaultPlanBuilt
    /\ init_call.looks = [etc_resolv |-> "symlink", run_resolv |-> FALSE]
    /\ init_call.warned

\* the targets of the fixed part of the plan, in order
FixedTargets == << <<"sys">>, <<"proc">>, <<"dev">>, <<"dev", "pts">>, <<"tmp">> >>

UmountsOf(target) == {k \in 1..Len(calls) : calls[k].op = "umount" /\ calls[k].target = target}

----------------------------------------------------------------------------
(* tegrity.firstboot: init_first_boot_folder and install_first_boot_scripts *)

\* a file name is the sequence of its characters; a script's path is the
\* sequence of its components, each a file name

\* firstboot.py:64  SCRIPT_NAME = os.path.basename(__file__)
SCRIPT_NAME == <<"f", "i", "r", "s", "t", "b", "o", "o", "t", ".", "p", "y">>

\* firstboot.py:347  if index == 100
MaxFirstBootScripts == 100
\* firstboot.py:355  index * 10
PrefixStep == 10
\* firstboot.py:355  .rjust(3, '0')
PrefixWidth == 3

Digits == <<"0", "1", "2", "3", "4", "5", "6", "7", "8", "9">>

\* str(n) of a natural number
RECURSIVE str(_)
str(n) == IF n < 10 THEN <<Digits[n + 1]>>
          ELSE str(n \div 10) \o <<Digits[(n % 10) + 1]>>

\* s.rjust(width, fillchar)
rjust(s, width, fillchar) ==
    IF Len(s) >= width THEN s
    ELSE [k \in 1..(width - Len(s)) |-> fillchar] \o s

\* a naming that does not pad the number (C18 must notice)
dest_name_unpadded(index, filename) ==
    str(index * PrefixStep) \o <<".">> \o basename(filename)[1]

\* line 355: f"{str(index * 10).rjust(3, '0')}.{os.path.basename(filename)}"
dest_name(index, filename) ==
    rjust(str(index * PrefixStep), PrefixWidth, "0") \o <<".">> \o basename(filename)[1]

\* a loop that lets script number 100 through (C17 must notice)
cap_reached_late(index) == index = MaxFirstBootScripts + 1

\* line 347
cap_reached(index) == index = MaxFirstBootScripts

\* the order of characters that sorted() goes by (their code points)
CharOrder == <<".">> \o Digits \o
             <<"a", "b", "c", "d", "e", "f", "g", "h", "i", "j", "k", "l", "m",
               "n", "o", "p", "q", "r", "s", "t", "u", "v", "w", "x", "y", "z">>
ord == [c \in {CharOrder[k] : k \in 1..Len(CharOrder)} |->
           CHOOSE k \in 1..Len(CharOrder) : CharOrder[k] = c]

\* a < b for two strings
RECURSIVE StrLess(_, _)
StrLess(a, b) ==
    IF b = <<>> THEN FALSE
    ELSE IF a = <<>> THEN TRUE
    ELSE IF a[1] # b[1] THEN ord[a[1]] < ord[b[1]]
    ELSE StrLess(Tail(a), Tail(b))

\* sorted(names) of a set of distinct names: each name goes to the place
\* that the number of names below it gives
sorted_names(names) ==
    LET placed == {<<Cardinality({y \in names : StrLess(y, x)}) + 1, x>> : x \in names}
    IN  [k \in 1..Cardinality(names) |-> (CHOOSE p \in placed : p[1] = k)[2]]

\* run_scripts, lines 365-370: the files of the folder in the order the
\* runner takes them up, its own file left out
run_order(entries) == SelectSeq(sorted_names(entries), LAMBDA name : name # SCRIPT_NAME)

\* the scripts a caller gives: the script at position k (from 0) of a list
\* that repeats one name, and of a list whose names go down the alphabet
Patterns == {"same", "down"}
Filename(pattern, k) ==
    IF pattern = "same" THEN << <<"h">>, <<"a">> >>
    ELSE << <<"h">>, << <<"c">>, <<"b">>, <<"a">> >>[(k % 3) + 1] >>
Lengths == {0, 1, 2, MaxFirstBootScripts - 1, MaxFirstBootScripts, MaxLen}
ScriptLists == {[k \in 1..n |-> Filename(pattern, k - 1)] : n \in Lengths, pattern \in Patterns}

\* what is at <rootfs>/etc/tegrity_fb before the call: etc says whether
\* <rootfs>/etc exists, isdir whether the folder does, entries what it lists
OldScripts == {SCRIPT_NAME, <<"0", "0", "0", ".", "z">>, <<"0", "1", "5", ".", "z">>}
Folders == { [etc |-> FALSE, isdir |-> FALSE, entries |-> {}],
             [etc |-> TRUE, isdir |-> FALSE, entries |-> {}],
             [etc |-> TRUE, isdir |-> TRUE, entries |-> {}],
             [etc |-> TRUE, isdir |-> TRUE, entries |-> OldScripts] }

\* no session is made
SessionIdle ==
    /\ pc = "new"
    /\ qemu_file = "absent"
    /\ qemu_file0 = qemu_file
    /\ mtab = <<>>
    /\ files = {}
    /\ self = NoSelf
    /\ i = 0
    /\ exc = "none"
    /\ orig = "none"
    /\ td_from = "none"
    /\ calls = <<>>
    /\ ran = NoCall
    /\ called = FALSE
    /\ faults = 0
    /\ init_call = NoCall

\* install_first_boot_scripts(rootfs, scripts, overwrite, interactive) is
\* called: line 342 calls init_first_boot_folder(rootfs, overwrite, interactive)
FirstBootInit ==
    /\ SessionIdle
    /\ sv = NoCall
    /\ im = NoCall
    /\ rs = NoCall
    /\ \E scripts \in ScriptLists, overwrite \in BOOLEAN, interactive \in BOOLEAN,
          folder \in Folders :
        fb = [pc |-> "init",
              call |-> [overwrite |-> overwrite, interactive |-> interactive],
              overwrite |-> overwrite, interactive |-> interactive,
              scripts |-> scripts,
              etc |-> folder.etc, isdir |-> folder.isdir, entries |-> folder.entries,
              old |-> folder.entries,
              index |-> 0, exc |-> "none", asked |-> <<>>, cleared |-> FALSE,
              installed |-> <<>>]

\* lines 324-328: chmod the folder, copy this script into it, return the folder
InitReturns(isdir, entries, asked, cleared) ==
    fb' = [fb EXCEPT !.pc = "install", !.isdir = isdir,
                     !.entries = entries \cup {SCRIPT_NAME},
                     !.asked = asked, !.cleared = cleared]

\* one call of init_first_boot_folder, lines 304-328; the call of line 323,
\* init_first_boot_folder(rootfs), is the next one, with both flags at their
\* default
InitFirstBootFolder ==
    /\ fb # NoCall
    /\ fb.pc = "init"
    /\ IF ~fb.isdir
       THEN IF ~fb.etc
            THEN fb' = [fb EXCEPT !.pc = "raised", !.exc = "FileNotFoundError"]
            ELSE InitReturns(TRUE, fb.entries, fb.asked, fb.cleared)
       ELSE IF fb.entries = {}
            THEN InitReturns(TRUE, fb.entries, fb.asked, fb.cleared)
            ELSE \E erase \in (IF fb.overwrite THEN {TRUE} ELSE BOOLEAN),
                    sure \in BOOLEAN :
                   LET asked == fb.asked
                                \o (IF fb.overwrite THEN <<>> ELSE <<"erase">>)
                                \o (IF erase /\ fb.interactive THEN <<"sure">> ELSE <<>>)
                       rmtree == erase /\ fb.interactive /\ sure
                   IN  /\ Len(asked) <= MaxAsked
                       /\ IF erase
                          THEN fb' = [fb EXCEPT !.asked = asked,
                                                !.isdir = IF rmtree THEN FALSE ELSE @,
                                                !.entries = IF rmtree THEN {} ELSE @,
                                                !.cleared = @ \/ rmtree,
                                                !.overwrite = FALSE,
                                                !.interactive = FALSE]
                          ELSE InitReturns(TRUE, fb.entries, asked, fb.cleared)
    /\ UNCHANGED <<pc, qemu_file, qemu_file0, mtab, files, self, i, exc, orig, td_from,
                   calls, ran, called, faults, init_call, sv, im, rs>>

\* lines 346-358: one turn of the loop over enumerate(scripts)
InstallScript ==
    /\ fb # NoCall
    /\ fb.pc = "install"
    /\ fb.index < Len(fb.scripts)
    /\ LET index == fb.index
           filename == fb.scripts[index + 1]
           dest == dest_name(index, filename)
       IN  IF cap_reached(index)
           THEN fb' = [fb EXCEPT !.pc = "raised", !.exc = "RuntimeError"]
           ELSE \E ok \in BOOLEAN :
                  IF ok
                  THEN fb' = [fb EXCEPT !.entries = @ \cup {dest},
                                        !.installed = Append(@, dest),
                                        !.index = index + 1]
                  ELSE fb' = [fb EXCEPT !.pc = "raised", !.exc = "OSError.copy"]
    /\ UNCHANGED <<pc, qemu_file, qemu_file0, mtab, files, self, i, exc, orig, td_from,
                   calls, ran, called, faults, init_call, sv, im, rs>>

\* the loop is over: install_first_boot_scripts returns
InstallReturns ==
    /\ fb # NoCall
    /\ fb.pc = "install"
    /\ fb.index >= Len(fb.scripts)
    /\ fb' = [fb EXCEPT !.pc = "returned"]
    /\ UNCHANGED <<pc, qemu_file, qemu_file0, mtab, files, self, i, exc, orig, td_from,
                   calls, ran, called, faults, init_call, sv, im, rs>>

FirstBootNext ==
    \/ InitFirstBootFolder
    \/ InstallScript
    \/ InstallReturns

SpecFirstBoot == FirstBootInit /\ [][FirstBootNext]_vars

\* the NNN the claims speak of for the script at position k (from 0): 10 * k
\* in three digits
Numbered(k) == <<Digits[(k \div 10) + 1], Digits[(k % 10) + 1], "0">>
PrefixOf(name) == SubSeq(name, 1, 3)

\* the destination names of the first n scripts of the call, in caller order
FirstInstalled(n) ==
    [k \in 1..n |-> Numbered(k - 1) \o <<".">> \o fb.scripts[k][Len(fb.scripts[k])]]

\* C17: a call with more than 100 scripts never returns normally, and when
\* the error about the maximum is raised the scripts installed by the call are
\* none or exactly the first 100, in caller order.
C17_CapIsFatal ==
    fb # NoCall /\ Len(fb.scripts) > MaxFirstBootScripts =>
        /\ fb.pc # "returned"
        /\ Len(fb.installed) <= MaxFirstBootScripts
        /\ fb.exc = "RuntimeError" =>
              \/ fb.installed = <<>>
              \/ fb.installed = FirstInstalled(MaxFirstBootScripts)

\* C17 happens: the error about the maximum was raised with 100 scripts in place
C17_Witness ==
    /\ fb # NoCall
    /\ fb.pc = "raised"
    /\ fb.exc = "RuntimeError"
    /\ Len(fb.installed) = MaxFirstBootScripts
    /\ {fb.installed[k] : k \in 1..Len(fb.installed)} \subseteq fb.entries

\* C18: after a call with N <= 100 scripts has returned, script i (from 0) is
\* installed as NNN.<basename> with NNN = 10 * i in three digits; the prefixes
\* differ pairwise and sort in caller order; the runner, which goes through
\* the sorted names of the folder, takes the scripts up in caller order.
C18_PrefixesKeepOrder ==
    fb # NoCall /\ fb.pc = "returned" =>
        LET n == Len(fb.scripts)
            installed == {fb.installed[k] : k \in 1..Len(fb.installed)}
        IN  /\ n <= MaxFirstBootScripts
            /\ fb.installed = FirstInstalled(n)
            /\ installed \subseteq fb.entries
            /\ \A j, k \in 1..n :
                  j < k => /\ PrefixOf(fb.installed[j]) # PrefixOf(fb.installed[k])
                           /\ StrLess(PrefixOf(fb.installed[j]), PrefixOf(fb.installed[k]))
            /\ SelectSeq(run_order(fb.entries), LAMBDA name : name \in installed)
                  = fb.installed

\* C18 happens: 100 scripts whose names go down the alphabet were installed
\* next to scripts of an earlier call
C18_Witness ==
    /\ fb # NoCall
    /\ fb.pc = "returned"
    /\ Len(fb.scripts) = MaxFirstBootScripts
    /\ fb.scripts[1] # fb.scripts[2]
    /\ fb.old # {}
    /\ ~fb.cleared

\* init_first_boot_folder has returned to install_first_boot_scripts
InitReturned == fb # NoCall /\ fb.pc = "install" /\ fb.index = 0

\* C19: over a folder that holds scripts, init_first_boot_folder with
\* overwrite set asks nothing and clears the folder; with overwrite unset it
\* clears only after the user said yes; after a clear none of the old scripts
\* is left.
C19_OverwriteClears ==
    InitReturned /\ fb.old # {} =>
        /\ fb.call.overwrite => fb.asked = <<>> /\ fb.cleared
        /\ ~fb.call.overwrite /\ fb.cleared => InSeq("erase", fb.asked)
        /\ fb.cleared => fb.entries \cap (fb.old \ {SCRIPT_NAME}) = {}

\* C28: init_first_boot_folder calls itself again (line 323) only over a folder
\* it has emptied, and so puts its question about erasing at most once.
C28_RecursesOnlyAfterClear ==
    [][fb # NoCall /\ fb.pc = "init" /\ fb'.pc = "init" =>
          /\ fb'.entries = {}
          /\ Cardinality({k \in 1..Len(fb'.asked) : fb'.asked[k] = "erase"}) <= 1]_vars

----------------------------------------------------------------------------
(* tegrity.service: install *)

\* service.py:37-41
DEFAULT_AFTER == "basic.target"
DEFAULT_BEFORE == "default.target"
DEFAULT_WANTED_BY == "default.target"
DEFAULT_BINDIR == <<"usr", "local", "exe">>
DEFAULT_UNIT_PATH == <<"lib", "systemd", "system">>

\* tegrity-service-simple.service.in: the placeholders of the template
DEFAULT_TEMPLATE == {"after", "before", "execstart", "wanted_by"}

\* what a caller gives as executable: a bare name, a relative path with a
\* directory, an absolute path
Executables == { <<"svc.py">>, <<"tool">>, <<"d", "svc.py">>, <<"/", "h", "svc.py">> }

\* line 106: f"{os.path.splitext(exec_name)[0]}.service", for the names above
service_basename(exec_name) ==
    IF exec_name = <<"svc.py">> THEN <<"svc.service">> ELSE <<"tool.service">>

\* str.format on the template: every placeholder gets its keyword argument,
\* a keyword without a placeholder (exec_name) is dropped
format(template, kwargs) == [key \in template |-> kwargs[key]]

\* is_enabled, lines 44-51: the vector handed to tegrity.utils.run
is_enabled_command(service_name, rootfs) ==
    << <<"systemctl">>, <<"--root=">> \o rootfs, <<"is-enabled">>, service_name >>

\* lines 127-129
enable_command(service_name, rootfs) ==
    << <<"systemctl">>, <<"--root=">> \o rootfs, <<"enable">>, service_name >>

\* install(executable, rootfs, after) is called; found (the executable is a
\* file), bindir, unitpath and subdir (the directory the copy goes to exists)
\* say what the checks and the copy will find, enabled whether the rootfs has
\* the service enabled already
ServiceInit ==
    /\ SessionIdle
    /\ fb = NoCall
    /\ im = NoCall
    /\ rs = NoCall
    /\ \E executable \in Executables, after \in {DEFAULT_AFTER, "network.target"},
          found \in BOOLEAN, bindir \in BOOLEAN, unitpath \in BOOLEAN,
          subdir \in BOOLEAN, enabled \in BOOLEAN :
        sv = [pc |-> "check", executable |-> executable, rootfs |-> Rootfs,
              after |-> after, before |-> DEFAULT_BEFORE, wanted_by |-> DEFAULT_WANTED_BY,
              isfile |-> found, bindir |-> bindir, unitpath |-> unitpath,
              subdir |-> subdir, enabled |-> enabled,
              files |-> {}, calls |-> <<>>, exc |-> "none"]

\* lines 86-94
InstallChecks ==
    /\ sv # NoCall
    /\ sv.pc = "check"
    /\ IF ~sv.isfile \/ ~sv.bindir \/ ~sv.unitpath
       THEN sv' = [sv EXCEPT !.pc = "raised", !.exc = "FileNotFoundError"]
       ELSE sv' = [sv EXCEPT !.pc = "copy"]
    /\ UNCHANGED <<pc, qemu_file, qemu_file0, mtab, files, self, i, exc, orig, td_from,
                   calls, ran, called, faults, init_call, fb, im, rs>>

\* shutil.copy(executable, exec_dest): the exception it raises
copy_executable(executable, exec_dest, bindir, subdir, ok) ==
    IF executable = exec_dest THEN "SameFileError"
    ELSE IF dirname(exec_dest) # bindir /\ ~subdir THEN "FileNotFoundError"
    ELSE IF ~ok THEN "OSError.copy"
    ELSE "none"

\* lines 97-99
InstallCopy ==
    /\ sv # NoCall
    /\ sv.pc = "copy"
    /\ \E ok \in BOOLEAN :
        LET bindir == join(sv.rootfs, DEFAULT_BINDIR)
            exec_dest == join(bindir, sv.executable)
            copied == copy_executable(sv.executable, exec_dest, bindir, sv.subdir, ok)
        IN  IF copied # "none"
            THEN sv' = [sv EXCEPT !.pc = "raised", !.exc = copied]
            ELSE sv' = [sv EXCEPT !.pc = "write",
                                  !.files = @ \cup {[path |-> exec_dest, mode |-> "755"]}]
    /\ UNCHANGED <<pc, qemu_file, qemu_file0, mtab, files, self, i, exc, orig, td_from,
                   calls, ran, called, faults, init_call, fb, im, rs>>

\* lines 102-121
InstallWrite ==
    /\ sv # NoCall
    /\ sv.pc = "write"
    /\ \E ok \in BOOLEAN :
        LET unitpath == join(sv.rootfs, DEFAULT_UNIT_PATH)
            exec_name == basename(sv.executable)
            execstart == join(<<"/">>, DEFAULT_BINDIR \o exec_name)
            service_filename == join(unitpath, service_basename(exec_name))
            unit == format(DEFAULT_TEMPLATE,
                           [after |-> sv.after, before |-> sv.before,
                            exec_name |-> exec_name, execstart |-> execstart,
                            wanted_by |-> sv.wanted_by])
        IN  IF ~ok
            THEN sv' = [sv EXCEPT !.pc = "raised", !.exc = "OSError.write"]
            ELSE sv' = [sv EXCEPT !.pc = "is_enabled",
                                  !.files = @ \cup {[path |-> service_filename, unit |-> unit]}]
    /\ UNCHANGED <<pc, qemu_file, qemu_file0, mtab, files, self, i, exc, orig, td_from,
                   calls, ran, called, faults, init_call, fb, im, rs>>

\* line 123 and is_enabled, lines 44-51: systemctl is-enabled exits with 0
\* only for a service that is enabled
InstallIsEnabled ==
    /\ sv # NoCall
    /\ sv.pc = "is_enabled"
    /\ \E child \in (IF sv.enabled THEN {[returncode |-> 0]} ELSE {})
                    \cup {[returncode |-> 1], [raised |-> "OSError.run"]} :
        LET service_name == service_basename(basename(sv.executable))
            result == subprocess_run(child, FALSE)
            called_ == Append(sv.calls,
                              [argv |-> _run(is_enabled_command(service_name, sv.rootfs), FALSE),
                               result |-> result])
        IN  IF Raised(result)
            THEN sv' = [sv EXCEPT !.pc = "raised", !.exc = result.raised, !.calls = called_]
            ELSE IF result.returncode # 0
            THEN sv' = [sv EXCEPT !.pc = "enable", !.calls = called_]
            ELSE sv' = [sv EXCEPT !.pc = "returned", !.calls = called_]
    /\ UNCHANGED <<pc, qemu_file, qemu_file0, mtab, files, self, i, exc, orig, td_from,
                   calls, ran, called, faults, init_call, fb, im, rs>>

\* an install that drops what systemctl enable gives back (C20 must notice)
after_enable_unchecked(result) == "return"

\* line 129: .check_returncode() on what the runner gave back
after_enable(result) == IF result.returncode # 0 THEN "raise" ELSE "return"

\* lines 126-129
InstallEnable ==
    /\ sv # NoCall
    /\ sv.pc = "enable"
    /\ \E child \in Results :
        LET service_name == service_basename(basename(sv.executable))
            result == subprocess_run(child, FALSE)
            called_ == Append(sv.calls,
                              [argv |-> _run(enable_command(service_name, sv.rootfs), FALSE),
                               result |-> result])
        IN  IF Raised(result)
            THEN sv' = [sv EXCEPT !.pc = "raised", !.exc = result.raised, !.calls = called_]
            ELSE IF after_enable(result) = "raise"
            THEN sv' = [sv EXCEPT !.pc = "raised", !.exc = "CalledProcessError",
                                  !.calls = called_]
            ELSE sv' = [sv EXCEPT !.pc = "returned", !.calls = called_,
                                  !.enabled = @ \/ result.returncode = 0]
    /\ UNCHANGED <<pc, qemu_file, qemu_file0, mtab, files, self, i, exc, orig, td_from,
                   calls, ran, called, faults, init_call, fb, im, rs>>

ServiceNext ==
    \/ InstallChecks
    \/ InstallCopy
    \/ InstallWrite
    \/ InstallIsEnabled
    \/ InstallEnable

SpecService == ServiceInit /\ [][ServiceNext]_vars

Paths(fs) == {f.path : f \in fs}

InRootfs(path) == <<"/">> \o SubSeq(path, Len(sv.rootfs) + 1, Len(path))

\* C30: install makes its three checks before it changes anything: when one
\* of them fails it raises with nothing copied, written or run; and when it
\* returns, the ExecStart of the unit it wrote is the in-rootfs path of the
\* file it copied the executable to.
C30_ChecksFirstAndExecStart ==
    sv # NoCall =>
        /\ sv.pc = "raised" /\ (~sv.isfile \/ ~sv.bindir \/ ~sv.unitpath) =>
              sv.files = {} /\ sv.calls = <<>>
        /\ sv.pc = "returned" =>
              \E copied \in {f \in sv.files : "mode" \in DOMAIN f},
                 written \in {f \in sv.files : "unit" \in DOMAIN f} :
                    written.unit.execstart = InRootfs(copied.path)

----------------------------------------------------------------------------
(* the session's bookkeeping *)

Opening == pc = "enter_mounts"
Active == pc = "active"

\* the targets of the calls of one kind that succeeded, in the order of the calls
RECURSIVE Succeeded(_, _)
Succeeded(log, op) ==
    IF log = <<>> THEN <<>>
    ELSE (IF log[1].op = op /\ log[1].ok THEN <<log[1].target>> ELSE <<>>)
         \o Succeeded(Tail(log), op)

\* C21: while the session opens and while it is active, self._mounted is the
\* sequence of the targets whose mount succeeded so far, in that order (and
\* so is the platform's mount table).
C21_RecordedAreMounted ==
    Opening \/ Active \/ (pc = "exit_qemu" /\ td_from = "enter") =>
        /\ self._mounted = Succeeded(calls, "mount")
        /\ self._mounted = mtab

\* C21 happens: a mount failed after others had succeeded
C21_Witness ==
    /\ pc = "exit_qemu"
    /\ td_from = "enter"
    /\ Len(self._mounted) >= 2
    /\ ~calls[Len(calls)].ok
    /\ calls[Len(calls)].op = "mount"

\* the places in the call log of the calls that satisfy a test
Where(Test(_)) == {k \in 1..Len(calls) : Test(calls[k])}
IsUmount(c) == c.op = "umount"
IsDescriptorMount(c) == c.op = "mount" /\ c.target # qemu_target
IsPlacement(c) == c.op \in {"copy", "mount"} /\ c.target = qemu_target

\* C22: in teardown the copied translator is deleted before any umount, and a
\* staged script is deleted only after every recorded target has had its
\* umount; in opening the translator is placed before the first mount of the
\* plan.
C22_StepsInOrder ==
    /\ \A r \in Where(IsQemuRemove), u \in Where(IsUmount) : r < u
    /\ \A r \in Where(IsScriptRemove) :
          /\ \A u \in Where(IsUmount) : u < r
          /\ \A k \in 1..Len(self._mounted) :
                \E u \in Where(IsUmount) : calls[u].target = self._mounted[k]
    /\ \A m \in Where(IsDescriptorMount) : \E q \in Where(IsPlacement) : q < m

\* C22 happens: a teardown deleted the translator's copy, unmounted the tmpfs
\* and deleted a staged script
C22_Witness ==
    /\ Where(IsQemuRemove) # {}
    /\ Where(IsScriptRemove) # {}
    /\ \E u \in Where(IsUmount) : calls[u].target = self.tmp

\* C23: while the session is active no call adds or removes a mount: the
\* recorded mounts, the descriptors, the translator's copy, the mount table and
\* the log of mounts and umounts stay as they are; the session object changes
\* only when run_script appends one staged path.
C23_BodyKeepsMounts ==
    [][Active =>
          /\ self'._mounted = self._mounted
          /\ self'.mount_kwargs = self.mount_kwargs
          /\ self'._qemu_copied = self._qemu_copied
          /\ mtab' = mtab
          /\ calls' = calls
          /\ self' # self =>
                /\ ran'.by = "run_script"
                /\ \E dest \in {join(self.tmp, script) : script \in Scripts} :
                      self' = [self EXCEPT !._scripts = Append(@, dest)]]_vars

\* C23 happens: two scripts were staged and a command ran after them
C23_Witness ==
    Active /\ Len(self._scripts) >= 2 /\ ran.by \in {"run_cmd", "enter_chroot"}

\* the in-chroot name C24 expects for a script, and the host path of that name
InChroot(script) == join(<<"/", "tmp">>, basename(script))
StagedAs(script) == join(self.tmp, basename(script))

\* C24: whatever the form of the script's path, unless the platform fails the
\* copy, run_script stages the script in <rootfs>/tmp, records that staged path
\* for cleanup before the command runs, and runs /tmp/<basename>.
C24_StagedUnderBasename ==
    /\ ran.by = "run_script"
    /\ ~(Raised(ran.result) /\ ran.result.raised = "OSError.copy")
    => /\ ran.argv # <<>>
       /\ self._scripts # <<>>
       /\ self._scripts[Len(self._scripts)] = StagedAs(ran.command[1])
       /\ ran.argv[Len(ran.argv)] = InChroot(ran.command[1])

\* the places of the --userspec options in a command vector
UserspecOptions(argv) == {k \in 1..Len(argv) : IsPrefix(<<"--userspec=">>, argv[k])}

\* C25: the prefix enter_chroot runs is chroot, then at most one --userspec
\* option (the call's own if it gave one, else the session's default if there
\* is one, else none), then the rootfs as its last word.
C25_OneUserspec ==
    ran.by = "enter_chroot" =>
        LET argv == ran.argv
            expected == IF ran.userspec # None THEN ran.userspec ELSE self.userspec
        IN  /\ argv[1] = <<"chroot">>
            /\ Cardinality(UserspecOptions(argv)) <= 1
            /\ expected = None => UserspecOptions(argv) = {}
            /\ expected # None =>
                  \E k \in UserspecOptions(argv) : argv[k] = <<"--userspec=">> \o expected
            /\ argv[Len(argv)] = self.rootfs

\* C25 happens: a call gave its own user while the session had a default
C25_Witness ==
    /\ ran.by = "enter_chroot"
    /\ ran.userspec # None
    /\ self.userspec # None
    /\ self.userspec # ran.userspec

----------------------------------------------------------------------------
(* the with statement *)

\* how often x stands in a sequence
Count(seq, x) == Cardinality({k \in 1..Len(seq) : seq[k] = x})

\* C27: a session driven through the with statement is torn down once, from
\* __enter__ when the opening failed and at the end of the block otherwise: when
\* it is closed every recorded target has had one umount for each time it was
\* recorded, every staged script at most one deletion for each time it was
\* staged, and the translator's copy at most one deletion.
C27_TornDownOnce ==
    Closed =>
        /\ \A k \in 1..Len(self._mounted) :
              Count(Targets("umount"), self._mounted[k]) = Count(self._mounted, self._mounted[k])
        /\ \A k \in 1..Len(self._scripts) :
              Count(ScriptRemoves, self._scripts[k]) <= Count(self._scripts, self._scripts[k])
        /\ Len(ScriptRemoves) <= Len(self._scripts)
        /\ Cardinality(Where(IsQemuRemove)) <= 1

----------------------------------------------------------------------------
(* tegrity.image.make_image: the size of the SD card *)

\* every estimate from 0 to MaxSize GB is tried, and the estimates next to the
\* powers of two up to 2^MaxExponent
MaxSize == 40
MaxExponent == 29

NANO_DEV_ID == "P3448-0000"
XAVIER_ID == "P2888"
L4t == <<"/", "Linux_for_Tegra">>
NANO_SD_CARD_SCRIPT == <<"create-jetson-nano-sd-card-image.sh">>
JETSON_DISK_IMAGE_CREATOR == <<"tools", "jetson-disk-image-creator.sh">>

\* what du -s -BGB can print for the rootfs, in whole GB
Sizes ==
    (0..MaxSize)
        \cup {2^k - 2 : k \in 1..MaxExponent}
        \cup {2^k - 1 : k \in 1..MaxExponent}
        \cup {2^k : k \in 1..(MaxExponent - 1)}

\* the least k with 2^k >= x, for x >= 1
RECURSIVE ceil_log2(_)
ceil_log2(x) == IF x <= 1 THEN 0 ELSE 1 + ceil_log2((x + 1) \div 2)

\* math.log(x, 2) is the quotient of two doubles, log(x) / log(2). For x = 2^k
\* the quotient is k itself for every k up to 30 but 29, where it is
\* 29.000000000000004; for every other x below 2^31 it lies between the same
\* two integers as the real logarithm does.
Overshoots == {29}

\* a logarithm without rounding error (C26's arithmetic)
ceil_log_exact(x) == ceil_log2(x)

\* line 59: math.ceil(math.log(x, 2))
ceil_log(x) ==
    LET k == ceil_log2(x)
    IN  IF x = 2^k /\ k \in Overshoots THEN k + 1 ELSE k

\* line 59
sd_size(rootfs_size) == 2^ceil_log(rootfs_size + 1)

\* make_image(l4t_path, out) is called on a Linux_for_Tegra folder
ImageInit ==
    /\ SessionIdle
    /\ fb = NoCall
    /\ sv = NoCall
    /\ rs = NoCall
    /\ \E hwid \in {NANO_DEV_ID, XAVIER_ID}, out \in {None, <<"/", "o.img">>},
          du \in Sizes, du_ok \in BOOLEAN, old \in BOOLEAN, new \in BOOLEAN,
          child \in {0, 1} :
        im = [pc |-> "hwid", hwid |-> hwid, out |-> out, du |-> du, du_ok |-> du_ok,
              old_script |-> old, new_script |-> new, child |-> child,
              rootfs_size |-> 0, script |-> None, arguments |-> NoCall,
              exc |-> "none"]

ImageFrame ==
    UNCHANGED <<pc, qemu_file, qemu_file0, mtab, files, self, i, exc, orig, td_from,
                calls, ran, called, faults, init_call, fb, sv, rs>>

\* lines 51-54 and 80-82: only the Nano's development module goes on;
\* NotImplemented is no exception class, calling it is a TypeError
AutodetectHwid ==
    /\ im # NoCall
    /\ im.pc = "hwid"
    /\ IF im.hwid = NANO_DEV_ID
       THEN im' = [im EXCEPT !.pc = "estimate",
                             !.out = IF @ = None THEN L4t \o <<"sdcard.T.img">> ELSE @]
       ELSE im' = [im EXCEPT !.pc = "raised", !.exc = "TypeError"]
    /\ ImageFrame

\* lines 55-56 and tegrity.utils.estimate_size: du exits with 0 and its number
\* is the estimate, or CalledProcessError is raised again
EstimateSize ==
    /\ im # NoCall
    /\ im.pc = "estimate"
    /\ IF im.du_ok
       THEN im' = [im EXCEPT !.pc = "size", !.rootfs_size = im.du]
       ELSE im' = [im EXCEPT !.pc = "raised", !.exc = "CalledProcessError"]
    /\ ImageFrame

\* lines 59-79: the card's size, the arguments and the script they go to
SdSize ==
    /\ im # NoCall
    /\ im.pc = "size"
    /\ LET arguments == [o |-> im.out,
                         s |-> [n |-> sd_size(im.rootfs_size), unit |-> "GB"],
                         r |-> "200", b |-> None]
       IN  IF im.old_script
           THEN im' = [im EXCEPT !.pc = "run", !.arguments = arguments,
                                 !.script = L4t \o NANO_SD_CARD_SCRIPT]
           ELSE IF im.new_script
           THEN im' = [im EXCEPT !.pc = "run",
                                 !.arguments = [arguments EXCEPT !.b = <<"jetson-nano">>],
                                 !.script = L4t \o JETSON_DISK_IMAGE_CREATOR]
           ELSE im' = [im EXCEPT !.pc = "raised", !.exc = "FileNotFoundError"]
    /\ ImageFrame

\* line 86: tegrity.utils.run((script, *arguments)).check_returncode()
CreateImage ==
    /\ im # NoCall
    /\ im.pc = "run"
    /\ IF im.child = 0
       THEN im' = [im EXCEPT !.pc = "returned"]
       ELSE im' = [im EXCEPT !.pc = "raised", !.exc = "CalledProcessError"]
    /\ ImageFrame

ImageNext ==
    \/ AutodetectHwid
    \/ EstimateSize
    \/ SdSize
    \/ CreateImage

SpecImage == ImageInit /\ [][ImageNext]_vars

IsPowerOfTwo(n) == \E k \in 0..30 : n = 2^k

\* C26: whatever the estimate s, the size handed to the script is a power of
\* two, is at least s + 1 and is less than 2 * (s + 1) (its half is less than
\* s + 1).
C26_NextPowerOfTwo ==
    im # NoCall /\ im.arguments # NoCall =>
        LET s == im.rootfs_size
            sd == im.arguments.s.n
        IN  /\ IsPowerOfTwo(sd)
            /\ sd >= s + 1
            /\ sd \div 2 < s + 1
            /\ sd = 2^ceil_log_exact(s + 1)

----------------------------------------------------------------------------
(* tegrity.firstboot.run_scripts: the runner of the first boot *)

\* two installed scripts
ScriptA == <<"0", "0", "0", ".", "a">>
ScriptB == <<"0", "1", "0", ".", "b">>
Log(script) == script \o <<".", "l", "o", "g">>
Readme == <<"R", "E", "A", "D", "M", "E">>

\* a file: the directory it is in (the script folder, a directory in it, or a
\* directory elsewhere that the process may have as its working directory),
\* its name, and whether it may be executed
File(dir, name, x) == [dir |-> dir, name |-> name, x |-> x]
NamesIn(fs, dir) == {f.name : f \in {g \in fs : g.dir = dir}}

\* lines 365-366: os.walk(folder) yields the folder and then the directory in
\* it, each with its files, which the loop takes in sorted order
Walk(fs) ==
    LET of(dir) == LET names == sorted_names(NamesIn(fs, dir))
                   IN  [k \in 1..Len(names) |-> [root |-> dir, script |-> names[k]]]
    IN  of("folder") \o of("sub")

\* run_scripts(folder, cleanup) is called; the runner's own file is in the folder
RunScriptsInit ==
    /\ SessionIdle
    /\ fb = NoCall
    /\ sv = NoCall
    /\ im = NoCall
    /\ \E cleanup \in BOOLEAN, cwd \in {"folder", "home"},
          a \in {"absent", "executable", "plain"},
          b \in BOOLEAN, below \in BOOLEAN, outside \in BOOLEAN :
        LET fs == {File("folder", SCRIPT_NAME, TRUE)}
                    \cup (IF a = "absent" THEN {} ELSE {File("folder", ScriptA, a = "executable")})
                    \cup (IF b THEN {File("folder", ScriptB, TRUE)} ELSE {})
                    \cup (IF below THEN {File("sub", ScriptA, TRUE)} ELSE {})
                    \cup (IF outside THEN {File("home", ScriptA, TRUE)} ELSE {})
        IN  rs = [pc |-> "walk", cleanup |-> cleanup, cwd |-> cwd, fs |-> fs,
                  walk |-> Walk(fs), index |-> 1, executed |-> <<>>, failed |-> <<>>,
                  removed |-> <<>>, folder_removed |-> FALSE, exc |-> "none"]

RunScriptsFrame ==
    UNCHANGED <<pc, qemu_file, qemu_file0, mtab, files, self, i, exc, orig, td_from,
                calls, ran, called, faults, init_call, fb, sv, im>>

\* line 398: if cleanup and not process.returncode
removes(cleanup, returncode) == cleanup /\ returncode = 0

\* lines 366-401, one turn of the loop over sorted(scripts): os.access(script)
\* and _remove(script) take the bare name, which the process resolves in its
\* working directory; Popen takes os.path.join(root, script)
RunScriptsTurn ==
    /\ rs # NoCall
    /\ rs.pc = "walk"
    /\ rs.index <= Len(rs.walk)
    /\ LET root == rs.walk[rs.index].root
           script == rs.walk[rs.index].script
           here == File(rs.cwd, script, TRUE)
           next == [rs EXCEPT !.index = @ + 1]
       IN  IF script = SCRIPT_NAME THEN rs' = next
           ELSE IF here \notin rs.fs THEN rs' = next
           ELSE IF File(root, script, TRUE) \notin rs.fs
           THEN rs' = [rs EXCEPT !.pc = "raised", !.exc = "PermissionError"]
           ELSE \E returncode \in {0, 1} :
                  rs' = [next EXCEPT
                           !.executed = Append(@, [root |-> root, script |-> script,
                                                   returncode |-> returncode]),
                           !.fs = (IF removes(rs.cleanup, returncode) THEN @ \ {here} ELSE @)
                                     \cup {File(root, Log(script), FALSE)},
                           !.removed = IF removes(rs.cleanup, returncode)
                                       THEN Append(@, [dir |-> rs.cwd, name |-> script])
                                       ELSE @,
                           !.failed = IF returncode # 0 THEN Append(@, script) ELSE @]
    /\ RunScriptsFrame

\* lines 402-414: the README is written into the folder
WriteReadme ==
    /\ rs # NoCall
    /\ rs.pc = "walk"
    /\ rs.index > Len(rs.walk)
    /\ rs' = [rs EXCEPT !.pc = "cleanup", !.fs = @ \cup {File("folder", Readme, FALSE)}]
    /\ RunScriptsFrame

\* lines 415-419: with cleanup the runner's own file goes, and when nothing
\* failed _remove(folder): os.remove raises IsADirectoryError and os.rmdir
\* removes the folder if it is empty (the error of a folder that is not is logged)
CleanUp ==
    /\ rs # NoCall
    /\ rs.pc = "cleanup"
    /\ LET fs == IF rs.cleanup THEN rs.fs \ {File("folder", SCRIPT_NAME, TRUE)} ELSE rs.fs
           rmdir == /\ rs.cleanup
                    /\ rs.failed = <<>>
                    /\ NamesIn(fs, "folder") = {}
                    /\ NamesIn(fs, "sub") = {}
       IN  rs' = [rs EXCEPT !.pc = "returned", !.fs = fs, !.folder_removed = rmdir]
    /\ RunScriptsFrame

RunScriptsNext ==
    \/ RunScriptsTurn
    \/ WriteReadme
    \/ CleanUp

SpecRunScripts == RunScriptsInit /\ [][RunScriptsNext]_vars

\* C29: with cleanup, a file the loop deletes is a script that ran and exited
\* with 0; a script that exited with another status is recorded as failed and
\* is still where it was; the runner's own file is never executed; the folder
\* is removed only when nothing failed.
C29_CleanupKeepsFailures ==
    rs # NoCall /\ rs.cleanup =>
        /\ \A k \in 1..Len(rs.removed) :
              \E n \in 1..Len(rs.executed) :
                 /\ rs.executed[n].root = rs.removed[k].dir
                 /\ rs.executed[n].script = rs.removed[k].name
                 /\ rs.executed[n].returncode = 0
        /\ \A n \in 1..Len(rs.executed) :
              rs.executed[n].returncode # 0 =>
                 /\ InSeq(rs.executed[n].script, rs.failed)
                 /\ File(rs.executed[n].root, rs.executed[n].script, TRUE) \in rs.fs
        /\ \A n \in 1..Len(rs.executed) : rs.executed[n].script # SCRIPT_NAME
        /\ rs.folder_removed => rs.failed = <<>>

====
